---- MODULE Spec2Model ----
(***************************************************************************)
(* Model of the TomoAI server's retrieval core (src/server.js): the        *)
(* Embedding collection (models/embedding.js), the ingest, delete and      *)
(* visibility routes that write it, and the POST /api/chat handler that    *)
(* reads it.                                                               *)
(*                                                                         *)
(* Text is a sequence of atoms: single characters, or a whole literal of   *)
(* the source where only concatenation is applied to it.  The Embedder and *)
(* the language model are external collaborators: every call either fails  *)
(* or returns, and what it returns is drawn from a small set.              *)
(***************************************************************************)
EXTENDS Integers, Sequences, FiniteSets, TLC

(* ------------------------------ bounds --------------------------------- *)
MaxIds == 2         \* Documents ever saved (an _id is never given twice)
MaxIndex == 4       \* entries of an index handed to the similarity search
MaxOutLen == 5      \* characters of a model output, enumerated exhaustively
MaxLines == 4       \* lines of a model output built from OutputLines
MaxSpaceDocs == 1   \* Documents ingested next to the space routes
MaxRegistrations == 2   \* POST /api/users requests served at the same time

(* ------------------------------ text ----------------------------------- *)
NoText == << >>
NL == "\n"
SP == " "

Min(a, b) == IF a < b THEN a ELSE b

RECURSIVE Concat(_)
\* the concatenation of a sequence of texts
Concat(ts) == IF ts = << >> THEN << >> ELSE Head(ts) \o Concat(Tail(ts))

RECURSIVE Join(_, _)
\* Array.prototype.join: the texts of ts separated by sep
Join(ts, sep) ==
    IF ts = << >> THEN << >>
    ELSE IF Len(ts) = 1 THEN Head(ts)
    ELSE Head(ts) \o sep \o Join(Tail(ts), sep)

RECURSIVE Split(_, _)
\* String.prototype.split(sep) for a one-character separator: always at
\* least one piece, the empty text gives one empty piece
Split(t, sep) ==
    IF \A i \in 1..Len(t) : t[i] # sep THEN << t >>
    ELSE LET k == CHOOSE i \in 1..Len(t) :
                      /\ t[i] = sep
                      /\ \A j \in 1..(i - 1) : t[j] # sep
         IN  << SubSeq(t, 1, k - 1) >> \o Split(SubSeq(t, k + 1, Len(t)), sep)

IsSpace(c) == c \in {SP, NL}
IsDigit(c) == c \in {"0", "1", "2", "3", "4", "5", "6", "7", "8", "9"}

RECURSIVE TrimLeft(_)
TrimLeft(t) == IF t # << >> /\ IsSpace(Head(t)) THEN TrimLeft(Tail(t)) ELSE t

RECURSIVE TrimRight(_)
TrimRight(t) ==
    IF t # << >> /\ IsSpace(t[Len(t)]) THEN TrimRight(SubSeq(t, 1, Len(t) - 1)) ELSE t

\* String.prototype.trim
Trim(t) == TrimRight(TrimLeft(t))

\* Array.prototype.slice(0, n)
Slice(s, n) == SubSeq(s, 1, Min(n, Len(s)))

\* Array.prototype.filter
FilterSeq(s, Keep(_)) == SelectSeq(s, Keep)

MapSeq(s, F(_)) == [i \in 1..Len(s) |-> F(s[i])]

(* ---------------------------- collaborators ---------------------------- *)
\* Request inputs.  The empty text and the empty id stand for a field the
\* request body does not carry (falsy in the handlers' `!x` checks).
NoSpace == ""
SpaceIds == {"s1", "s2"}
NoTitle == ""
Titles == {"t"}
ChunkA == << "a" >>
ChunkB == << "b" >>
Blank == << SP >>
\* what the loader and the splitter make of an uploaded file
DocumentChunkLists ==
    { << >>, << Blank >>, << ChunkA >>, << ChunkB, Blank, ChunkA >> }
RawTexts == {NoText, ChunkA}
NoPrompt == << >>
Prompts == {NoPrompt, << "a", "?" >>, << "b", "?" >>}

RECURSIVE Count(_, _)
Count(t, c) ==
    IF t = << >> THEN 0
    ELSE (IF Head(t) = c THEN 1 ELSE 0) + Count(Tail(t), c)

\* The Embedder: a fixed-dimension, never-zero vector that is a function of
\* the text alone.
EmbedVec(t) == << 1 + Count(t, "a"), 1 + Count(t, "b") >>

\* OpenAIEmbeddings.embedDocuments: one vector per text, no cross-item effect
EmbedDocuments(texts) == [i \in 1..Len(texts) |-> EmbedVec(texts[i])]

Dot(x, y) == x[1] * y[1] + x[2] * y[2]

\* cosine(x, q) > cosine(y, q), for vectors with non-negative components:
\* dot(x,q)/|x| > dot(y,q)/|y|, compared on the squares
MoreSimilar(x, y, q) ==
    Dot(x, q) * Dot(x, q) * Dot(y, y) > Dot(y, q) * Dot(y, q) * Dot(x, x)

(* ------------------------- Embedding collection ------------------------ *)
VARIABLES
    embeddingsDb,   \* the Embedding collection, in insertion order
    nextId,         \* the _id the next saved Document gets
    lastOp,         \* what the store request just served did (history)
    chat,           \* the POST /api/chat request in flight
    spacesDb,       \* the Space collection
    chatsDb,        \* the Chat collection
    chatPlusDb,     \* the ChatPlus collection
    usersDb,        \* the User collection
    registrations   \* the POST /api/users requests in flight

vars == << embeddingsDb, nextId, lastOp, chat, spacesDb, chatsDb, chatPlusDb,
           usersDb, registrations >>

\* the collections the Document routes and the answer request never name
otherDbs == << spacesDb, chatsDb, chatPlusDb, usersDb >>

\* embeddingSchema.embeddings is [[Number]]: given the flat array of numbers
\* of one embedding, the cast wraps every number in a one-element array
CastFlat(v) == [i \in 1..Len(v) |-> << v[i] >>]

\* new Embedding(fields): visibility defaults to true
NewEmbedding(id, spaceId, title, embeddings, content) ==
    [id |-> id, spaceId |-> spaceId, title |-> title,
     embeddings |-> embeddings, content |-> content, visibility |-> TRUE]

\* the schema's validators: spaceId and title are required strings; the
\* required validator of an array path accepts every array, empty or not
Validates(doc) == doc.spaceId # NoSpace /\ doc.title # NoTitle

\* a find that forgets its filter
Find_AnySpace(db, spaceId) == db

\* Embedding.find({ spaceId })
Find(db, spaceId) == SelectSeq(db, LAMBDA d : d.spaceId = spaceId)

HasId(db, id) == \E i \in 1..Len(db) : db[i].id = id

\* the collection without the Document of that _id
Without(db, id) == SelectSeq(db, LAMBDA d : d.id # id)

NoDoc == NewEmbedding(0, NoSpace, NoTitle, << >>, << >>)

NoUid == ""
NoChatId == ""

\* lastOp: the route, its response status, the Document it handed to save()
\* or got back from the update (NoDoc when it did not get that far), whether
\* save() stored it, and the number of Embedder calls the request made; then
\* what single routes record on top: the Document as it was before an
\* update, the chunksSaved and the documents of the response body, the space
\* the request named and the user who sent it, the spaces or chats of the
\* response body, whether the request changed a collection, and what became
\* of the file multer wrote for it ("none" when it wrote no file), and the
\* chat the request named
Done(op, status, doc, saved, embedCalls) ==
    [op |-> op, status |-> status, doc |-> doc, saved |-> saved,
     embedCalls |-> embedCalls, was |-> NoDoc, chunksSaved |-> 0,
     documents |-> << >>, spaceId |-> NoSpace, by |-> NoUid,
     listed |-> {}, changed |-> FALSE, tempFile |-> "none",
     chatId |-> NoChatId]

NoOp == Done("none", 0, NoDoc, FALSE, 0)

HasRoom == nextId <= MaxIds

\* save() stores the Document when the write reaches the database and the
\* schema's validators accept it
Stored(doc, dbOk) == dbOk /\ Validates(doc)

\* a save that stores the chunk texts last first
Save_Reversed(doc, dbOk) ==
    IF Stored(doc, dbOk)
    THEN /\ embeddingsDb' =
              Append(embeddingsDb,
                     [doc EXCEPT !.content = [i \in 1..Len(@) |-> @[Len(@) + 1 - i]]])
         /\ nextId' = nextId + 1
    ELSE UNCHANGED << embeddingsDb, nextId >>

\* newDocument.save(): validate, then insert as one Document
Save(doc, dbOk) ==
    IF Stored(doc, dbOk)
    THEN /\ embeddingsDb' = Append(embeddingsDb, doc)
         /\ nextId' = nextId + 1
    ELSE UNCHANGED << embeddingsDb, nextId >>

\* POST /api/embeddings: the raw-text ingest.  The embedding call is a
\* collaborator call like the others: it returns (embedOk) or throws.  What
\* is saved is the returned embedding alone: the text is not kept.
PostEmbeddings(spaceId, title, text, embedOk, dbOk) ==
    /\ HasRoom
    /\ UNCHANGED << chat, otherDbs, registrations >>
    /\ IF spaceId = NoSpace \/ title = NoTitle \/ text = NoText
       THEN /\ lastOp' = Done("embeddings", 400, NoDoc, FALSE, 0)
            /\ UNCHANGED << embeddingsDb, nextId >>
       ELSE IF ~embedOk
       THEN /\ lastOp' = Done("embeddings", 500, NoDoc, FALSE, 1)
            /\ UNCHANGED << embeddingsDb, nextId >>
       ELSE LET embeddings == EmbedVec(text)
                newEmbedding == NewEmbedding(nextId, spaceId, title,
                                             CastFlat(embeddings), << >>)
            IN  /\ Save(newEmbedding, dbOk)
                /\ lastOp' = Done("embeddings", IF Stored(newEmbedding, dbOk) THEN 201 ELSE 500,
                                  newEmbedding, Stored(newEmbedding, dbOk), 1)

\* a filter that keeps every chunk that has characters, blank or not
IsValidChunk_NonEmpty(pageContent) == pageContent # << >>

\* chunk => chunk.pageContent?.trim()
IsValidChunk(pageContent) == Trim(pageContent) # << >>

\* a response sent before fs.unlinkSync(req.file.path) was reached: the file
\* multer wrote stays in uploads/
TempFileLeft(done) == [done EXCEPT !.tempFile = "left"]

\* POST /api/upload-pdf: the PDF ingest.  documentChunks is what the loader
\* and the splitter made of the file; failAt = i > 0 makes the i-th Embedder
\* call fail.  The file is unlinked after the save alone.
UploadPdf(hasFile, spaceId, title, loadOk, documentChunks, failAt, dbOk) ==
    /\ HasRoom
    /\ UNCHANGED << chat, otherDbs, registrations >>
    /\ LET validChunks == FilterSeq(documentChunks, IsValidChunk)
           embeddingsArray == EmbedDocuments(validChunks)
           contentArray == validChunks
           newDocument == NewEmbedding(nextId, spaceId, title,
                                       embeddingsArray, contentArray)
       IN  IF ~hasFile
           THEN /\ lastOp' = Done("upload", 400, NoDoc, FALSE, 0)
                /\ UNCHANGED << embeddingsDb, nextId >>
           ELSE IF spaceId = NoSpace \/ title = NoTitle
           THEN /\ lastOp' = TempFileLeft(Done("upload", 400, NoDoc, FALSE, 0))
                /\ UNCHANGED << embeddingsDb, nextId >>
           ELSE IF ~loadOk
           THEN /\ lastOp' = TempFileLeft(Done("upload", 500, NoDoc, FALSE, 0))
                /\ UNCHANGED << embeddingsDb, nextId >>
           ELSE IF Len(validChunks) = 0
           THEN /\ lastOp' = TempFileLeft(Done("upload", 400, NoDoc, FALSE, 0))
                /\ UNCHANGED << embeddingsDb, nextId >>
           ELSE IF failAt \in 1..Len(validChunks)
           THEN /\ lastOp' = TempFileLeft(Done("upload", 500, NoDoc, FALSE, failAt))
                /\ UNCHANGED << embeddingsDb, nextId >>
           ELSE /\ Save(newDocument, dbOk)
                /\ lastOp' =
                     [Done("upload", IF Stored(newDocument, dbOk) THEN 200 ELSE 500,
                           newDocument, Stored(newDocument, dbOk), Len(validChunks))
                      EXCEPT !.chunksSaved = IF Stored(newDocument, dbOk)
                                             THEN Len(validChunks) ELSE 0,
                             !.tempFile = IF Stored(newDocument, dbOk)
                                          THEN "removed" ELSE "left"]

\* DELETE /api/documents/:id
DeleteDocument(id, dbOk) ==
    /\ UNCHANGED << nextId, chat, otherDbs, registrations >>
    /\ IF ~dbOk
       THEN /\ lastOp' = Done("delete", 500, NoDoc, FALSE, 0)
            /\ UNCHANGED embeddingsDb
       ELSE IF ~HasId(embeddingsDb, id)
       THEN /\ lastOp' = Done("delete", 404, NoDoc, FALSE, 0)
            /\ UNCHANGED embeddingsDb
       ELSE /\ embeddingsDb' = Without(embeddingsDb, id)
            /\ lastOp' = Done("delete", 200, NoDoc, FALSE, 0)

\* the Document of that _id
ById(db, id) == db[CHOOSE i \in 1..Len(db) : db[i].id = id]

\* an update that replaces the Document by the update's fields
PutVisibility_Replace(id, visibility, dbOk) ==
    /\ UNCHANGED << nextId, chat, otherDbs, registrations >>
    /\ IF ~dbOk \/ ~HasId(embeddingsDb, id)
       THEN /\ lastOp' = Done("visibility", 500, NoDoc, FALSE, 0)
            /\ UNCHANGED embeddingsDb
       ELSE LET updatedDocument ==
                    [NewEmbedding(id, NoSpace, NoTitle, << >>, << >>)
                     EXCEPT !.visibility = visibility]
            IN  /\ embeddingsDb' =
                     [i \in 1..Len(embeddingsDb) |->
                         IF embeddingsDb[i].id = id THEN updatedDocument
                         ELSE embeddingsDb[i]]
                /\ lastOp' = [Done("visibility", 200, NoDoc, FALSE, 0) EXCEPT
                                 !.was = ById(embeddingsDb, id),
                                 !.documents = << updatedDocument >>]

\* PUT /api/documents/:id/visibility: findByIdAndUpdate(id, { visibility },
\* { new: true }); the response is the updated Document
PutVisibility(id, visibility, dbOk) ==
    /\ UNCHANGED << nextId, chat, otherDbs, registrations >>
    /\ IF ~dbOk
       THEN /\ lastOp' = Done("visibility", 500, NoDoc, FALSE, 0)
            /\ UNCHANGED embeddingsDb
       ELSE IF ~HasId(embeddingsDb, id)
       THEN /\ lastOp' = Done("visibility", 404, NoDoc, FALSE, 0)
            /\ UNCHANGED embeddingsDb
       ELSE LET updatedDocument ==
                    [ById(embeddingsDb, id) EXCEPT !.visibility = visibility]
            IN  /\ embeddingsDb' =
                     [i \in 1..Len(embeddingsDb) |->
                         IF embeddingsDb[i].id = id THEN updatedDocument
                         ELSE embeddingsDb[i]]
                /\ lastOp' = [Done("visibility", 200, NoDoc, FALSE, 0) EXCEPT
                                 !.was = ById(embeddingsDb, id),
                                 !.documents = << updatedDocument >>]

(* --------------- Space, Chat, ChatPlus and User collections ------------ *)
Uids == {"u1", "u2"}
ChatIds == {"c1", "c2"}
ChatPlusIds == {"p1"}
NotPlus == "NA"
SpaceName == "course"
ChatName == "chat"
Roles == {"student", "ta", "professor"}

\* Array.prototype.includes, and the match of a { users: uid } filter
Includes(list, x) == \E i \in 1..Len(list) : list[i] = x

\* $push in the place of $addToSet
AddToSet_Push(list, x) == Append(list, x)

\* $addToSet: appended unless the array has it
AddToSet(list, x) == IF Includes(list, x) THEN list ELSE Append(list, x)

\* $pull: every occurrence goes
Pull(list, x) == SelectSeq(list, LAMBDA y : y # x)

\* new Space({ firebaseUid, spaceId, spaceName, users })
NewSpace(firebaseUid, spaceId, users) ==
    [firebaseUid |-> firebaseUid, spaceId |-> spaceId, spaceName |-> SpaceName,
     users |-> users]

\* new Chat({ firebaseUid, spaceId, chatId, chatPlusId, chatName }): the
\* schema has no chatPlusId path, so the strict schema drops that field
NewChat(firebaseUid, spaceId, chatId) ==
    [firebaseUid |-> firebaseUid, spaceId |-> spaceId, chatId |-> chatId,
     chatName |-> ChatName]

\* new ChatPlus({ firebaseUid, chatPlusId, spaceId, chatPlusName, users })
NewChatPlus(firebaseUid, chatPlusId, spaceId, users) ==
    [firebaseUid |-> firebaseUid, chatPlusId |-> chatPlusId, spaceId |-> spaceId,
     chatPlusName |-> ChatName, users |-> users]

\* new User({ firebaseUid, firstName, lastName, email, role })
NewUser(firebaseUid, role) == [firebaseUid |-> firebaseUid, role |-> role]

\* a route of these collections answers: its status, the space it named
SpaceDone(op, status, spaceId) ==
    [Done(op, status, NoDoc, FALSE, 0) EXCEPT !.spaceId = spaceId]

\* the entries a { spaceId } filter matches
InSpace(db, spaceId) == {e \in db : e.spaceId = spaceId}

\* a deleteOne in its place: at most one matching entry goes
DeleteMany_One(db, spaceId) ==
    IF InSpace(db, spaceId) = {} THEN db
    ELSE db \ {CHOOSE e \in InSpace(db, spaceId) : TRUE}

\* Model.deleteMany({ spaceId })
DeleteMany(db, spaceId) == db \ InSpace(db, spaceId)

\* POST /api/users
PostUsers(firebaseUid, role, dbOk) ==
    /\ UNCHANGED << embeddingsDb, nextId, chat, spacesDb, chatsDb, chatPlusDb, registrations >>
    /\ IF ~dbOk
       THEN /\ lastOp' = Done("users", 500, NoDoc, FALSE, 0)
            /\ UNCHANGED usersDb
       ELSE IF \E u \in usersDb : u.firebaseUid = firebaseUid
       THEN /\ lastOp' = Done("users", 400, NoDoc, FALSE, 0)
            /\ UNCHANGED usersDb
       ELSE IF firebaseUid = NoUid \/ role \notin Roles
       THEN /\ lastOp' = Done("users", 500, NoDoc, FALSE, 0)
            /\ UNCHANGED usersDb
       ELSE /\ usersDb' = usersDb \cup {NewUser(firebaseUid, role)}
            /\ lastOp' = Done("users", 201, NoDoc, FALSE, 0)

\* POST /api/users as the server runs it: the handler awaits User.findOne
\* and then newUser.save(), and other requests are served between the two.
\* Each request in flight has its position, the user it registers and, once
\* answered, the status of its response.
IdleRegistration == [pc |-> "idle", firebaseUid |-> NoUid, role |-> "", status |-> 0]
NoRegistrations == [r \in 1..MaxRegistrations |-> IdleRegistration]

Answered(registration, status) == [registration EXCEPT !.pc = "done", !.status = status]

\* const existingUser = await User.findOne({ firebaseUid }); 400 when found
RegisterFindOne(r, firebaseUid, role, dbOk) ==
    /\ registrations[r].pc = "idle"
    /\ UNCHANGED << embeddingsDb, nextId, lastOp, chat, otherDbs >>
    /\ LET request == [IdleRegistration EXCEPT !.firebaseUid = firebaseUid,
                                               !.role = role]
       IN  registrations' =
             [registrations EXCEPT ![r] =
                IF ~dbOk THEN Answered(request, 500)
                ELSE IF \E u \in usersDb : u.firebaseUid = firebaseUid
                THEN Answered(request, 400)
                ELSE [request EXCEPT !.pc = "save"]]

\* await newUser.save(): the validators, then the unique firebaseUid index;
\* a save that throws is answered 500 by the catch
RegisterSave(r, dbOk) ==
    /\ registrations[r].pc = "save"
    /\ UNCHANGED << embeddingsDb, nextId, lastOp, chat, spacesDb, chatsDb, chatPlusDb >>
    /\ LET request == registrations[r]
       IN  IF \/ ~dbOk
              \/ request.firebaseUid = NoUid \/ request.role \notin Roles
              \/ \E u \in usersDb : u.firebaseUid = request.firebaseUid
           THEN /\ registrations' = [registrations EXCEPT ![r] = Answered(request, 500)]
                /\ UNCHANGED usersDb
           ELSE /\ usersDb' = usersDb \cup {NewUser(request.firebaseUid, request.role)}
                /\ registrations' = [registrations EXCEPT ![r] = Answered(request, 201)]

\* the response is out; the server takes the next request
RegisterEnd(r) ==
    /\ registrations[r].pc = "done"
    /\ UNCHANGED << embeddingsDb, nextId, lastOp, chat, otherDbs >>
    /\ registrations' = [registrations EXCEPT ![r] = IdleRegistration]

\* POST /api/spaces: refused when this user already has that space; the
\* save fails on a missing required field and on the unique spaceId index
PostSpaces(firebaseUid, spaceId, users, dbOk) ==
    /\ UNCHANGED << embeddingsDb, nextId, chat, chatsDb, chatPlusDb, usersDb, registrations >>
    /\ IF ~dbOk
       THEN /\ lastOp' = SpaceDone("spaces", 500, spaceId)
            /\ UNCHANGED spacesDb
       ELSE IF \E sp \in spacesDb : sp.firebaseUid = firebaseUid /\ sp.spaceId = spaceId
       THEN /\ lastOp' = SpaceDone("spaces", 400, spaceId)
            /\ UNCHANGED spacesDb
       ELSE IF \/ firebaseUid = NoUid \/ spaceId = NoSpace
               \/ InSpace(spacesDb, spaceId) # {}
       THEN /\ lastOp' = SpaceDone("spaces", 500, spaceId)
            /\ UNCHANGED spacesDb
       ELSE /\ spacesDb' = spacesDb \cup {NewSpace(firebaseUid, spaceId, users)}
            /\ lastOp' = SpaceDone("spaces", 201, spaceId)

\* PUT /api/spaces/:spaceId/users: $addToSet
PutSpaceUsers(spaceId, userId, dbOk) ==
    /\ UNCHANGED << embeddingsDb, nextId, chat, chatsDb, chatPlusDb, usersDb, registrations >>
    /\ IF userId = NoUid
       THEN /\ lastOp' = SpaceDone("addUser", 400, spaceId)
            /\ UNCHANGED spacesDb
       ELSE IF ~dbOk
       THEN /\ lastOp' = SpaceDone("addUser", 500, spaceId)
            /\ UNCHANGED spacesDb
       ELSE IF InSpace(spacesDb, spaceId) = {}
       THEN /\ lastOp' = SpaceDone("addUser", 404, spaceId)
            /\ UNCHANGED spacesDb
       ELSE /\ spacesDb' = {IF sp.spaceId = spaceId
                            THEN [sp EXCEPT !.users = AddToSet(@, userId)]
                            ELSE sp : sp \in spacesDb}
            /\ lastOp' = [SpaceDone("addUser", 200, spaceId) EXCEPT
                             !.by = userId, !.changed = spacesDb' # spacesDb]

\* DELETE /api/spaces/:spaceId/users/:userId: $pull
DeleteSpaceUser(spaceId, userId, dbOk) ==
    /\ UNCHANGED << embeddingsDb, nextId, chat, chatsDb, chatPlusDb, usersDb, registrations >>
    /\ IF ~dbOk
       THEN /\ lastOp' = SpaceDone("removeUser", 500, spaceId)
            /\ UNCHANGED spacesDb
       ELSE IF InSpace(spacesDb, spaceId) = {}
       THEN /\ lastOp' = SpaceDone("removeUser", 404, spaceId)
            /\ UNCHANGED spacesDb
       ELSE /\ spacesDb' = {IF sp.spaceId = spaceId
                            THEN [sp EXCEPT !.users = Pull(@, userId)]
                            ELSE sp : sp \in spacesDb}
            /\ lastOp' = [SpaceDone("removeUser", 200, spaceId) EXCEPT
                             !.by = userId, !.changed = spacesDb' # spacesDb]

PersonalAssistant == "Personal Assistant"
SpaceNames == {SpaceName, PersonalAssistant}

\* `personal-assistant-${firebaseUid}`
PersonalSpaceId(firebaseUid) ==
    CASE firebaseUid = "u1" -> "personal-assistant-u1"
      [] firebaseUid = "u2" -> "personal-assistant-u2"
      [] OTHER -> "personal-assistant-undefined"

\* createDefaultSpace: nothing to do when this user owns a space of that
\* name; else the default space is saved, and a save that fails (the store,
\* the unique spaceId index) is logged and swallowed
CreateDefaultSpace(firebaseUid, dbOk) ==
    LET defaultSpace ==
            [NewSpace(firebaseUid, PersonalSpaceId(firebaseUid), << firebaseUid >>)
             EXCEPT !.spaceName = PersonalAssistant]
    IN  IF ~dbOk THEN spacesDb
        ELSE IF \E sp \in spacesDb : /\ sp.firebaseUid = firebaseUid
                                    /\ sp.spaceName = PersonalAssistant
        THEN spacesDb
        ELSE IF InSpace(spacesDb, PersonalSpaceId(firebaseUid)) # {}
        THEN spacesDb
        ELSE spacesDb \cup {defaultSpace}

\* POST /api/user/login: the default space, then always the 200
Login(firebaseUid, dbOk) ==
    /\ UNCHANGED << embeddingsDb, nextId, chat, chatsDb, chatPlusDb, usersDb, registrations >>
    /\ spacesDb' = CreateDefaultSpace(firebaseUid, dbOk)
    /\ lastOp' = [SpaceDone("login", 200, PersonalSpaceId(firebaseUid)) EXCEPT
                     !.by = firebaseUid, !.changed = spacesDb' # spacesDb]

\* PUT /api/spaces/:spaceId: the new name
PutSpaces(spaceId, spaceName, dbOk) ==
    /\ UNCHANGED << embeddingsDb, nextId, chat, chatsDb, chatPlusDb, usersDb, registrations >>
    /\ IF ~dbOk
       THEN /\ lastOp' = SpaceDone("rename", 500, spaceId)
            /\ UNCHANGED spacesDb
       ELSE IF InSpace(spacesDb, spaceId) = {}
       THEN /\ lastOp' = SpaceDone("rename", 404, spaceId)
            /\ UNCHANGED spacesDb
       ELSE /\ spacesDb' = {IF sp.spaceId = spaceId
                            THEN [sp EXCEPT !.spaceName = spaceName]
                            ELSE sp : sp \in spacesDb}
            /\ lastOp' = [SpaceDone("rename", 200, spaceId) EXCEPT
                             !.changed = spacesDb' # spacesDb]

\* GET /api/spaces: Space.find({ users: firebaseUid })
GetSpaces(firebaseUid, dbOk) ==
    /\ UNCHANGED << embeddingsDb, nextId, chat, otherDbs, registrations >>
    /\ lastOp' = IF firebaseUid = NoUid
                 THEN Done("getSpaces", 400, NoDoc, FALSE, 0)
                 ELSE IF ~dbOk
                 THEN [Done("getSpaces", 500, NoDoc, FALSE, 0) EXCEPT !.by = firebaseUid]
                 ELSE [Done("getSpaces", 200, NoDoc, FALSE, 0) EXCEPT
                          !.by = firebaseUid,
                          !.listed = {sp \in spacesDb : Includes(sp.users, firebaseUid)}]

\* DELETE /api/spaces/:spaceId: Chat.deleteMany, ChatPlus.deleteMany, then
\* Space.findOneAndDelete; failAt = i > 0 makes the i-th of the three throw.
\* The Embedding collection is not named.
DeleteSpace(spaceId, failAt) ==
    /\ UNCHANGED << embeddingsDb, nextId, chat, usersDb, registrations >>
    /\ chatsDb' = IF failAt = 1 THEN chatsDb ELSE DeleteMany(chatsDb, spaceId)
    /\ chatPlusDb' = IF failAt \in 1..2 THEN chatPlusDb
                     ELSE DeleteMany(chatPlusDb, spaceId)
    /\ spacesDb' = IF failAt \in 1..3 THEN spacesDb
                   ELSE spacesDb \ InSpace(spacesDb, spaceId)
    /\ lastOp' = SpaceDone("deleteSpace",
                           IF failAt \in 1..3 THEN 500
                           ELSE IF InSpace(spacesDb, spaceId) = {} THEN 404
                           ELSE 200,
                           spaceId)

\* POST /api/chats: the save fails on the unique chatId index
PostChats(firebaseUid, spaceId, chatId, chatPlusId, dbOk) ==
    /\ UNCHANGED << embeddingsDb, nextId, chat, spacesDb, chatPlusDb, usersDb, registrations >>
    /\ IF \/ firebaseUid = NoUid \/ spaceId = NoSpace \/ chatId = NoChatId
          \/ chatPlusId = NoChatId
       THEN /\ lastOp' = SpaceDone("chats", 400, spaceId)
            /\ UNCHANGED chatsDb
       ELSE IF ~dbOk \/ (\E c \in chatsDb : c.chatId = chatId)
       THEN /\ lastOp' = SpaceDone("chats", 500, spaceId)
            /\ UNCHANGED chatsDb
       ELSE /\ chatsDb' = chatsDb \cup {NewChat(firebaseUid, spaceId, chatId)}
            /\ lastOp' = SpaceDone("chats", 201, spaceId)

\* POST /api/chatplus: the save fails on the unique chatPlusId index
PostChatPlus(firebaseUid, chatPlusId, spaceId, users, dbOk) ==
    /\ UNCHANGED << embeddingsDb, nextId, chat, spacesDb, chatsDb, usersDb, registrations >>
    /\ IF firebaseUid = NoUid \/ chatPlusId = NoChatId \/ spaceId = NoSpace
       THEN /\ lastOp' = SpaceDone("chatplus", 400, spaceId)
            /\ UNCHANGED chatPlusDb
       ELSE IF ~dbOk \/ (\E c \in chatPlusDb : c.chatPlusId = chatPlusId)
       THEN /\ lastOp' = SpaceDone("chatplus", 500, spaceId)
            /\ UNCHANGED chatPlusDb
       ELSE /\ chatPlusDb' = chatPlusDb
                               \cup {NewChatPlus(firebaseUid, chatPlusId, spaceId, users)}
            /\ lastOp' = SpaceDone("chatplus", 201, spaceId)

\* the value of a path that a stored entry does not have
Undefined == "(undefined)"

\* chat.chatPlusId of a stored Chat: the Chat schema has no chatPlusId path,
\* so no stored Chat has the field, whatever its request carried
StoredChatPlusId(chatDoc) == Undefined

\* ChatPlus.findOne({ chatPlusId }): an undefined value goes to the store as
\* null and matches the entries without a chatPlusId, of which there is none
FindOneChatPlus(db, chatPlusId) == {cp \in db : cp.chatPlusId = chatPlusId}

\* the filter of GET /api/chats left out
AllowedChat_All(chatDoc, firebaseUid) == TRUE

\* the test GET /api/chats makes of each Chat of the space
AllowedChat(chatDoc, firebaseUid) ==
    IF StoredChatPlusId(chatDoc) = NotPlus
    THEN chatDoc.firebaseUid = firebaseUid
    ELSE \E chatPlus \in FindOneChatPlus(chatPlusDb, StoredChatPlusId(chatDoc)) :
            Includes(chatPlus.users, firebaseUid)

\* GET /api/chats: the Chats of the space that pass the test
GetChats(firebaseUid, spaceId, dbOk) ==
    /\ UNCHANGED << embeddingsDb, nextId, chat, otherDbs, registrations >>
    /\ lastOp' = IF firebaseUid = NoUid \/ spaceId = NoSpace
                 THEN [SpaceDone("getChats", 400, spaceId) EXCEPT !.by = firebaseUid]
                 ELSE IF ~dbOk
                 THEN [SpaceDone("getChats", 500, spaceId) EXCEPT !.by = firebaseUid]
                 ELSE [SpaceDone("getChats", 200, spaceId) EXCEPT
                          !.by = firebaseUid,
                          !.listed = {c \in InSpace(chatsDb, spaceId) :
                                         AllowedChat(c, firebaseUid)}]

\* DELETE /api/chats/:chatId: the Chat goes, and the ChatPlus entry that the
\* Chat's chatPlusId names when the Chat has one other than "NA"
DeleteChat(chatId, dbOk) ==
    /\ UNCHANGED << embeddingsDb, nextId, chat, spacesDb, usersDb, registrations >>
    /\ IF ~dbOk
       THEN /\ lastOp' = [Done("deleteChat", 500, NoDoc, FALSE, 0) EXCEPT !.chatId = chatId]
            /\ UNCHANGED << chatsDb, chatPlusDb >>
       ELSE IF ~\E c \in chatsDb : c.chatId = chatId
       THEN /\ lastOp' = [Done("deleteChat", 404, NoDoc, FALSE, 0) EXCEPT !.chatId = chatId]
            /\ UNCHANGED << chatsDb, chatPlusDb >>
       ELSE LET deletedChat == CHOOSE c \in chatsDb : c.chatId = chatId
            IN  /\ chatsDb' = chatsDb \ {deletedChat}
                /\ chatPlusDb' =
                     IF StoredChatPlusId(deletedChat) \notin {Undefined, NoChatId, NotPlus}
                     THEN chatPlusDb \ FindOneChatPlus(chatPlusDb,
                                                       StoredChatPlusId(deletedChat))
                     ELSE chatPlusDb
                /\ lastOp' = [Done("deleteChat", 200, NoDoc, FALSE, 0) EXCEPT
                                 !.chatId = chatId, !.spaceId = deletedChat.spaceId]

\* DELETE /api/chatplus/:chatPlusId
DeleteChatPlus(chatPlusId, dbOk) ==
    /\ UNCHANGED << embeddingsDb, nextId, chat, spacesDb, chatsDb, usersDb, registrations >>
    /\ IF ~dbOk
       THEN /\ lastOp' = Done("deleteChatPlus", 500, NoDoc, FALSE, 0)
            /\ UNCHANGED chatPlusDb
       ELSE IF FindOneChatPlus(chatPlusDb, chatPlusId) = {}
       THEN /\ lastOp' = Done("deleteChatPlus", 404, NoDoc, FALSE, 0)
            /\ UNCHANGED chatPlusDb
       ELSE /\ chatPlusDb' = chatPlusDb \ FindOneChatPlus(chatPlusDb, chatPlusId)
            /\ lastOp' = Done("deleteChatPlus", 200, NoDoc, FALSE, 0)

\* GET /api/documents: the Documents of the space, as stored, to whoever
\* asks (by); the request carries no user
GetDocuments(by, spaceId, dbOk) ==
    /\ UNCHANGED << embeddingsDb, nextId, chat, otherDbs, registrations >>
    /\ lastOp' = IF spaceId = NoSpace
                 THEN [Done("documents", 400, NoDoc, FALSE, 0) EXCEPT !.by = by]
                 ELSE IF ~dbOk
                 THEN [SpaceDone("documents", 500, spaceId) EXCEPT !.by = by]
                 ELSE [SpaceDone("documents", 200, spaceId) EXCEPT
                          !.by = by, !.documents = Find(embeddingsDb, spaceId)]

(* --------------------------- POST /api/chat ---------------------------- *)
SampleInstruction ==
    "Generate 3 unique, concise questions with less than 12 words based on the following content without numbering each question:\n"
SystemInstruction == "You are a helpful assistant that answers clearly."
ContentLabel == "Content: "
ContextLabel == "Context:\n"
QuestionLabel == "\n\nQuestion: "
NoResponse == << "No response from AI" >>
NoContext == << "No relevant context found." >>
TopK == 3
MaxQuestions == 3

RECURSIVE SkipDigits(_)
SkipDigits(t) == IF t # << >> /\ IsDigit(Head(t)) THEN SkipDigits(Tail(t)) ELSE t

\* question.replace(/^\d+\.\s*/, ''): one or more digits, a dot, any spaces
StripNumbering(question) ==
    LET rest == SkipDigits(question)
    IN  IF question # << >> /\ IsDigit(Head(question))
           /\ rest # << >> /\ Head(rest) = "."
        THEN TrimLeft(Tail(rest))
        ELSE question

NonEmpty(line) == Len(line) > 0

CleanQuestion(question) == Trim(StripNumbering(question))

\* a parse that cuts to three lines before it drops the blank ones
ParseSampleQuestions_SliceFirst(content) ==
    FilterSeq(Slice(MapSeq(Split(content, NL), CleanQuestion), MaxQuestions),
              NonEmpty)

\* content.split('\n').map(...).filter(...).slice(0, 3)
ParseSampleQuestions(content) ==
    Slice(FilterSeq(MapSeq(Split(content, NL), CleanQuestion), NonEmpty),
          MaxQuestions)

\* content.split('\n').map(trim).filter(non-empty).join('\n') || "No response from AI"
CleanResponse(content) ==
    LET joined == Join(FilterSeq(MapSeq(Split(content, NL), Trim), NonEmpty),
                       << NL >>)
    IN  IF joined = << >> THEN NoResponse ELSE joined

\* embeddingsData.map((data) => data.content).join(' '): an array element
\* of the outer join is rendered with its items separated by commas
SampleQuestionsPrompt(embeddingsData) ==
    Join(MapSeq(embeddingsData, LAMBDA data : Join(data.content, << "," >>)),
         << SP >>)

SampleMessages(embeddingsData) ==
    << [role |-> "user",
        content |-> << SampleInstruction >> \o SampleQuestionsPrompt(embeddingsData)] >>

\* data.content[index], made the pageContent of a langchain Document: a
\* missing text becomes the empty text
PageContentAt(data, index) ==
    IF index \in 1..Len(data.content) THEN data.content[index] ELSE NoText

\* embeddingsData.flatMap(data => data.embeddings.map((embedding, index) => ...)):
\* one index entry per stored embedding row, holding the text at its index
ToDocuments(embeddingsData) ==
    Concat(MapSeq(embeddingsData,
                  LAMBDA data : [index \in 1..Len(data.embeddings) |->
                                     PageContentAt(data, index)]))

\* MemoryVectorStore.similaritySearch: the k entries most similar to the
\* query vector, most similar first, the earlier entry first among equals
SimilaritySearch(documents, vectors, queryVector, k) ==
    LET n == Len(documents)
        Before(j, i) ==
            \/ MoreSimilar(vectors[j], vectors[i], queryVector)
            \/ /\ ~MoreSimilar(vectors[i], vectors[j], queryVector)
               /\ j < i
        Rank(i) == 1 + Cardinality({j \in 1..n : Before(j, i)})
    IN  [r \in 1..Min(k, n) |-> documents[CHOOSE i \in 1..n : Rank(i) = r]]

\* a context whose entries are separated by a single line break
BuildContext_OneBreak(results) ==
    Join(MapSeq(results, LAMBDA pageContent : << ContentLabel >> \o pageContent),
         << NL >>)

\* results.map((result) => `Content: ${result.pageContent}`).join('\n\n')
BuildContext(results) ==
    Join(MapSeq(results, LAMBDA pageContent : << ContentLabel >> \o pageContent),
         << NL, NL >>)

\* a message that wraps the prompt even when there is no context
UserContent_AlwaysWrapped(context, prompt) ==
    << ContextLabel >> \o context \o << QuestionLabel >> \o prompt

\* context ? `Context:\n${context}\n\nQuestion: ${prompt}` : prompt
UserContent(context, prompt) ==
    IF context # << >>
    THEN << ContextLabel >> \o context \o << QuestionLabel >> \o prompt
    ELSE prompt

AnswerMessages(context, prompt) ==
    << [role |-> "system", content |-> << SystemInstruction >>],
       [role |-> "user", content |-> UserContent(context, prompt)] >>

\* what the language model may say
ModelOutputs ==
    { << >>,
      << "a" >>,
      << "a", NL, NL, "b" >>,
      << "1", ".", SP, "a", NL, "2", ")", SP, "b", NL, SP, NL, "a", SP, NL, "b", NL, "a" >> }

NoBody == [sampleQuestions |-> << >>, contextSummary |-> << >>,
           response |-> << >>, error |-> ""]

IdleChat ==
    [pc |-> "idle", prompt |-> NoPrompt, spaceId |-> NoSpace,
     embeddingsData |-> << >>, documents |-> << >>, vectors |-> << >>,
     results |-> << >>, context |-> << >>, calls |-> << >>,
     status |-> 0, body |-> NoBody, failed |-> "none", responses |-> 0]

\* a call of a collaborator, as the request's history keeps it: what was
\* sent, whether the call returned, and what it returned
EmbedderCall(texts, ok) ==
    [to |-> "embedder", input |-> texts, ok |-> ok,
     reply |-> IF ok THEN EmbedDocuments(texts) ELSE << >>]
ModelCall(messages, ok, content) ==
    [to |-> "model", input |-> messages, ok |-> ok,
     reply |-> IF ok THEN content ELSE << >>]

\* res.status(status).json(body): the request is over
Respond(c, status, body) ==
    [c EXCEPT !.pc = "done", !.status = status, !.body = body,
              !.responses = @ + 1]

Error(message) == [NoBody EXCEPT !.error = message]

\* the catch blocks: the collaborator that threw is kept in the request's
\* history, the response is a 500
Fail(c, who, message) == Respond([c EXCEPT !.failed = who], 500, Error(message))

\* the request arrives: the spaceId check and Embedding.find({ spaceId }).
\* lastOp describes the store request served last before the step it is
\* read in; from here on the request in flight is the latest one.
ChatStart(prompt, spaceId, dbOk) ==
    /\ chat.pc = "idle"
    /\ lastOp' = NoOp
    /\ UNCHANGED << embeddingsDb, nextId, otherDbs, registrations >>
    /\ LET c == [chat EXCEPT !.prompt = prompt, !.spaceId = spaceId]
           embeddingsData == Find(embeddingsDb, spaceId)
           found == [c EXCEPT !.embeddingsData = embeddingsData]
       IN  IF spaceId = NoSpace
           THEN chat' = Respond(c, 400, Error("spaceId is required"))
           ELSE IF ~dbOk
           THEN chat' = Fail(c, "store", "Internal server error")
           ELSE IF Len(embeddingsData) = 0
           THEN chat' = Respond(found, 404,
                                Error("No embeddings found for the specified space"))
           ELSE IF prompt = NoPrompt
           THEN chat' = [found EXCEPT !.pc = "sample"]
           ELSE chat' = [found EXCEPT !.pc = "addDocuments",
                                      !.documents = ToDocuments(embeddingsData)]

\* a sample-questions step with no catch around it: when the completion
\* fails nothing is sent
ChatSampleQuestions_NoCatch(ok, content) ==
    /\ chat.pc = "sample"
    /\ UNCHANGED << embeddingsDb, nextId, lastOp, otherDbs, registrations >>
    /\ LET c == [chat EXCEPT !.calls =
                     Append(@, ModelCall(SampleMessages(chat.embeddingsData), ok, content))]
       IN  IF ok
           THEN chat' = Respond(c, 200,
                    [NoBody EXCEPT !.sampleQuestions = ParseSampleQuestions(content)])
           ELSE chat' = [c EXCEPT !.pc = "unhandled", !.failed = "model"]

\* the sample-questions completion returns or fails
ChatSampleQuestions(ok, content) ==
    /\ chat.pc = "sample"
    /\ UNCHANGED << embeddingsDb, nextId, lastOp, otherDbs, registrations >>
    /\ LET c == [chat EXCEPT !.calls =
                     Append(@, ModelCall(SampleMessages(chat.embeddingsData), ok, content))]
       IN  IF ok
           THEN chat' = Respond(c, 200,
                    [NoBody EXCEPT !.sampleQuestions = ParseSampleQuestions(content)])
           ELSE chat' = Fail(c, "model", "Internal server error")

\* an addDocuments whose failure is swallowed: the request goes on
ChatAddDocuments_Swallowed(ok) ==
    /\ chat.pc = "addDocuments"
    /\ UNCHANGED << embeddingsDb, nextId, lastOp, otherDbs, registrations >>
    /\ chat' = [chat EXCEPT !.calls = Append(@, EmbedderCall(chat.documents, ok)),
                            !.pc = "search",
                            !.vectors = EmbedDocuments(chat.documents)]

\* vectorStore.addDocuments(documents): the store embeds every pageContent
ChatAddDocuments(ok) ==
    /\ chat.pc = "addDocuments"
    /\ UNCHANGED << embeddingsDb, nextId, lastOp, otherDbs, registrations >>
    /\ LET c == [chat EXCEPT !.calls = Append(@, EmbedderCall(chat.documents, ok))]
       IN  IF ok
           THEN chat' = [c EXCEPT !.pc = "search",
                                  !.vectors = EmbedDocuments(chat.documents)]
           ELSE chat' = Fail(c, "embedder", "Internal server error")

\* a search that reads the collection again and indexes what it holds now
ChatSimilaritySearch_Reread(ok) ==
    /\ chat.pc = "search"
    /\ UNCHANGED << embeddingsDb, nextId, lastOp, otherDbs, registrations >>
    /\ LET embeddingsData == Find(embeddingsDb, chat.spaceId)
           documents == ToDocuments(embeddingsData)
           c == [chat EXCEPT !.calls = Append(@, EmbedderCall(<< chat.prompt >>, ok)),
                             !.embeddingsData = embeddingsData,
                             !.documents = documents,
                             !.vectors = EmbedDocuments(documents)]
           results == SimilaritySearch(documents, EmbedDocuments(documents),
                                       EmbedVec(chat.prompt), TopK)
       IN  IF ok
           THEN chat' = [c EXCEPT !.pc = "answer", !.results = results,
                                  !.context = BuildContext(results)]
           ELSE chat' = Fail(c, "embedder", "Error during similarity search")

\* vectorStore.similaritySearch(prompt, 3): embeds the prompt, then ranks
ChatSimilaritySearch(ok) ==
    /\ chat.pc = "search"
    /\ UNCHANGED << embeddingsDb, nextId, lastOp, otherDbs, registrations >>
    /\ LET c == [chat EXCEPT !.calls = Append(@, EmbedderCall(<< chat.prompt >>, ok))]
           results == SimilaritySearch(chat.documents, chat.vectors,
                                       EmbedVec(chat.prompt), TopK)
       IN  IF ok
           THEN chat' = [c EXCEPT !.pc = "answer", !.results = results,
                                  !.context = BuildContext(results)]
           ELSE chat' = Fail(c, "embedder", "Error during similarity search")

\* an answer step that keeps the exchange as a Chat of the space
ChatAnswer_Logged(ok, content) ==
    /\ chat.pc = "answer"
    /\ UNCHANGED << embeddingsDb, nextId, lastOp, spacesDb, chatPlusDb, usersDb, registrations >>
    /\ chatsDb' = chatsDb \cup {NewChat(NoUid, chat.spaceId, NoChatId)}
    /\ LET c == [chat EXCEPT !.calls =
                     Append(@, ModelCall(AnswerMessages(chat.context, chat.prompt), ok,
                                         content))]
       IN  IF ok
           THEN chat' = Respond(c, 200,
                    [NoBody EXCEPT !.response = CleanResponse(content)])
           ELSE chat' = Fail(c, "model", "Internal server error")

\* the answering completion returns or fails
ChatAnswer(ok, content) ==
    /\ chat.pc = "answer"
    /\ UNCHANGED << embeddingsDb, nextId, lastOp, otherDbs, registrations >>
    /\ LET c == [chat EXCEPT !.calls =
                     Append(@, ModelCall(AnswerMessages(chat.context, chat.prompt), ok,
                                         content))]
       IN  IF ok
           THEN chat' = Respond(c, 200,
                    [NoBody EXCEPT
                       !.contextSummary = IF chat.context # << >>
                                          THEN chat.context ELSE NoContext,
                       !.response = CleanResponse(content)])
           ELSE chat' = Fail(c, "model", "Internal server error")

\* the response is sent; the next request may arrive
ChatEnd ==
    /\ chat.pc = "done"
    /\ chat' = IdleChat
    /\ UNCHANGED << embeddingsDb, nextId, lastOp, otherDbs, registrations >>

(* ---------------------------- specification ---------------------------- *)
\* no space, chat, ChatPlus entry or user yet
NoOtherDbs ==
    /\ spacesDb = {}
    /\ chatsDb = {}
    /\ chatPlusDb = {}
    /\ usersDb = {}
    /\ registrations = NoRegistrations

Init ==
    /\ embeddingsDb = << >>
    /\ nextId = 1
    /\ lastOp = NoOp
    /\ NoOtherDbs
    /\ chat = IdleChat

\* no answer request is in flight
Serial == chat.pc = "idle"

\* The store routes, with every input and every failure they can meet,
\* served while no answer request is in flight
StoreRequest ==
    \/ /\ Serial
       /\ \E spaceId \in SpaceIds \cup {NoSpace}, title \in Titles \cup {NoTitle},
             text \in RawTexts, embedOk \in BOOLEAN, dbOk \in BOOLEAN :
             PostEmbeddings(spaceId, title, text, embedOk, dbOk)
    \/ /\ Serial
       /\ \E hasFile \in BOOLEAN, spaceId \in SpaceIds \cup {NoSpace},
             title \in Titles \cup {NoTitle}, loadOk \in BOOLEAN,
             documentChunks \in DocumentChunkLists, dbOk \in BOOLEAN :
             \E failAt \in 0..Len(documentChunks) :
                UploadPdf(hasFile, spaceId, title, loadOk, documentChunks,
                          failAt, dbOk)
    \/ /\ Serial
       /\ \E id \in 1..MaxIds, dbOk \in BOOLEAN : DeleteDocument(id, dbOk)
    \/ /\ Serial
       /\ \E id \in 1..MaxIds, visibility \in BOOLEAN, dbOk \in BOOLEAN :
             PutVisibility(id, visibility, dbOk)
    \/ /\ Serial
       /\ \E by \in Uids, spaceId \in SpaceIds \cup {NoSpace}, dbOk \in BOOLEAN :
             GetDocuments(by, spaceId, dbOk)

\* The steps of the answer request
ChatStep ==
    \/ \E prompt \in Prompts, spaceId \in SpaceIds \cup {NoSpace}, dbOk \in BOOLEAN :
          ChatStart(prompt, spaceId, dbOk)
    \/ \E ok \in BOOLEAN, content \in ModelOutputs : ChatSampleQuestions(ok, content)
    \/ \E ok \in BOOLEAN : ChatAddDocuments(ok)
    \/ \E ok \in BOOLEAN : ChatSimilaritySearch(ok)
    \/ \E ok \in BOOLEAN, content \in ModelOutputs : ChatAnswer(ok, content)
    \/ ChatEnd

\* Requests served one after the other.  After ChatStart the answer request
\* neither reads nor writes the collection, and no store route reads or
\* writes the request, so its later steps commute with every store route:
\* each state of the request reached under an interleaving is reached here.
Next ==
    \/ StoreRequest
    \/ ChatStep

Spec == Init /\ [][Next]_vars

(* ---------------- the sample-questions path, every output -------------- *)
\* The sample-questions path over one fixed corpus, the language model
\* answering with every text of OutputChars up to MaxOutLen characters and
\* every text of up to MaxLines lines of OutputLines.
OutputChars == {"1", ".", ")", SP, "a", NL}

OutputLines ==
    { << >>, << SP >>, << "a" >>,
      << "1", ".", SP, "a" >>, << "2", ")", SP, "a" >>, << "1", "2", "." >> }

\* the outputs enumerated character by character
CharOutputs == UNION {[1..n -> OutputChars] : n \in 0..MaxOutLen}

\* the outputs enumerated line by line, before the lines are joined
LineOutputs == UNION {[1..n -> OutputLines] : n \in 1..MaxLines}

OneDocument ==
    << NewEmbedding(1, "s1", "t", EmbedDocuments(<< ChunkA >>), << ChunkA >>) >>

InitParse ==
    /\ embeddingsDb = OneDocument
    /\ nextId = 2
    /\ lastOp = NoOp
    /\ NoOtherDbs
    /\ chat = IdleChat

NextParse ==
    \/ ChatStart(NoPrompt, "s1", TRUE)
    \/ /\ chat.pc = "sample"
       /\ \E ok \in BOOLEAN, content \in CharOutputs : ChatSampleQuestions(ok, content)
    \/ /\ chat.pc = "sample"
       /\ \E lines \in LineOutputs : ChatSampleQuestions(TRUE, Join(lines, << NL >>))

SpecParse == InitParse /\ [][NextParse]_vars

(* ------------- retrieval and context assembly, every index ------------- *)
\* The grounded-answer path from the built index on, over every index of up
\* to MaxIndex entries, the empty index included.
IndexTexts == {NoText, ChunkA, ChunkB}

IndexInputs == UNION {[1..n -> IndexTexts] : n \in 0..MaxIndex}

InitAssemble ==
    /\ embeddingsDb = << >>
    /\ nextId = 1
    /\ lastOp = NoOp
    /\ NoOtherDbs
    /\ \E prompt \in Prompts \ {NoPrompt}, documents \in IndexInputs :
          chat = [IdleChat EXCEPT !.pc = "addDocuments", !.spaceId = "s1",
                                  !.prompt = prompt, !.documents = documents]

NextAssemble ==
    \/ \E ok \in BOOLEAN : ChatAddDocuments(ok)
    \/ \E ok \in BOOLEAN : ChatSimilaritySearch(ok)
    \/ \E ok \in BOOLEAN, content \in ModelOutputs : ChatAnswer(ok, content)

SpecAssemble == InitAssemble /\ [][NextAssemble]_vars

(* ------------------- spaces, their chats and members ------------------- *)
\* The routes of the Space, Chat, ChatPlus and User collections next to the
\* PDF ingest, the listing and the answer request, one request at a time.
\* One professor makes the spaces and the chats and is the member added and
\* removed; both users list Documents.
Professor == "u1"
OneChunkFile == << ChunkA >>
SpacePrompts == {NoPrompt, << "a", "?" >>}
SpaceOutputs == {<< "a" >>}

HasSpaceRoom == Len(embeddingsDb) < MaxSpaceDocs

SpaceRequest ==
    \/ /\ Serial
       /\ \E role \in {"professor"} : PostUsers(Professor, role, TRUE)
    \/ /\ Serial
       /\ \E spaceId \in SpaceIds : PostSpaces(Professor, spaceId, << >>, TRUE)
    \/ /\ Serial
       /\ \E spaceId \in SpaceIds : PutSpaceUsers(spaceId, Professor, TRUE)
    \/ /\ Serial
       /\ \E spaceId \in SpaceIds : DeleteSpaceUser(spaceId, Professor, TRUE)
    \/ /\ Serial
       /\ \E spaceId \in SpaceIds, failAt \in 0..3 : DeleteSpace(spaceId, failAt)
    \/ /\ Serial
       /\ \E spaceId \in SpaceIds, chatId \in ChatIds :
             PostChats(Professor, spaceId, chatId, NotPlus, TRUE)
    \/ /\ Serial
       /\ \E chatPlusId \in ChatPlusIds, spaceId \in SpaceIds :
             PostChatPlus(Professor, chatPlusId, spaceId, << >>, TRUE)
    \/ /\ Serial /\ HasSpaceRoom
       /\ \E spaceId \in SpaceIds :
             UploadPdf(TRUE, spaceId, "t", TRUE, OneChunkFile, 0, TRUE)
    \/ /\ Serial
       /\ \E by \in Uids, spaceId \in SpaceIds, dbOk \in BOOLEAN :
             GetDocuments(by, spaceId, dbOk)

SpaceChatStep ==
    \/ \E prompt \in SpacePrompts, spaceId \in SpaceIds \cup {NoSpace},
          dbOk \in BOOLEAN : ChatStart(prompt, spaceId, dbOk)
    \/ \E ok \in BOOLEAN, content \in SpaceOutputs : ChatSampleQuestions(ok, content)
    \/ \E ok \in BOOLEAN : ChatAddDocuments(ok)
    \/ \E ok \in BOOLEAN : ChatSimilaritySearch(ok)
    \/ \E ok \in BOOLEAN, content \in SpaceOutputs : ChatAnswer(ok, content)
    \/ ChatEnd

NextSpaces ==
    \/ SpaceRequest
    \/ SpaceChatStep

SpecSpaces == Init /\ [][NextSpaces]_vars

(* ------------------------- spaces and their members --------------------- *)
\* The space routes and the login, one request at a time: two users make
\* the space "s1", with nobody, with its maker or with the users array of a
\* client that names one user twice; the first logs in; spaces are renamed
\* and members added and removed.
CourseSpace == "s1"
Visitor == "u2"
AccountSpaceIds == {CourseSpace, PersonalSpaceId(Professor)}

NextAccounts ==
    \/ \E firebaseUid \in Uids :
          \E users \in {<< >>, << firebaseUid >>, << Visitor, Visitor >>} :
             PostSpaces(firebaseUid, CourseSpace, users, TRUE)
    \/ \E dbOk \in BOOLEAN : Login(Professor, dbOk)
    \/ \E spaceId \in AccountSpaceIds, spaceName \in SpaceNames :
          PutSpaces(spaceId, spaceName, TRUE)
    \/ \E spaceId \in AccountSpaceIds, userId \in Uids \cup {NoUid} :
          PutSpaceUsers(spaceId, userId, TRUE)
    \/ \E spaceId \in AccountSpaceIds, userId \in Uids :
          DeleteSpaceUser(spaceId, userId, TRUE)
    \/ \E firebaseUid \in Uids \cup {NoUid}, dbOk \in BOOLEAN :
          GetSpaces(firebaseUid, dbOk)
    \/ \E failAt \in {0} : DeleteSpace(CourseSpace, failAt)

SpecAccounts == Init /\ [][NextAccounts]_vars

(* ------------------------- chats and their sharing ---------------------- *)
\* The chat routes, one request at a time: the two users make chats in the
\* two spaces, "c1" always as a private chat (chatPlusId "NA") and "c2"
\* always as a chat of the ChatPlus entry "p1"; the entry is made with
\* nobody, one user or both in it; chats are listed and deleted.
RequestedChatPlusId(chatId) == IF chatId = "c1" THEN NotPlus ELSE "p1"

NextChats ==
    \/ \E firebaseUid \in Uids, spaceId \in SpaceIds, chatId \in ChatIds :
          PostChats(firebaseUid, spaceId, chatId, RequestedChatPlusId(chatId), TRUE)
    \/ \E chatPlusId \in ChatPlusIds,
          users \in {<< >>, << "u1" >>, << "u2" >>, << "u1", "u2" >>} :
          PostChatPlus(Professor, chatPlusId, CourseSpace, users, TRUE)
    \/ \E firebaseUid \in Uids \cup {NoUid}, spaceId \in SpaceIds, dbOk \in BOOLEAN :
          GetChats(firebaseUid, spaceId, dbOk)
    \/ \E chatId \in ChatIds, dbOk \in BOOLEAN : DeleteChat(chatId, dbOk)
    \/ \E chatPlusId \in ChatPlusIds : DeleteChatPlus(chatPlusId, TRUE)
    \/ PostSpaces(Professor, CourseSpace, << >>, TRUE)
    \/ DeleteSpace(CourseSpace, 0)

SpecChats == Init /\ [][NextChats]_vars

(* ---------------------- registrations at the same time ------------------ *)
\* Registration requests of the two users, served at the same time by a
\* store that works: each looks its user up, then saves it, in any order.
NextRegister ==
    \/ \E r \in 1..MaxRegistrations, firebaseUid \in Uids, role \in {"student", "ta"} :
          RegisterFindOne(r, firebaseUid, role, TRUE)
    \/ \E r \in 1..MaxRegistrations : RegisterSave(r, TRUE)
    \/ \E r \in 1..MaxRegistrations : RegisterEnd(r)

SpecRegister == Init /\ [][NextRegister]_vars

(* ---------------------------- the two ingests --------------------------- *)
\* The ingest routes alone, with every input and every failure they can
\* meet, one request after the other.
NextIngest ==
    \/ \E hasFile \in BOOLEAN, spaceId \in SpaceIds \cup {NoSpace},
          title \in Titles \cup {NoTitle}, loadOk \in BOOLEAN,
          documentChunks \in DocumentChunkLists, dbOk \in BOOLEAN :
          \E failAt \in 0..Len(documentChunks) :
             UploadPdf(hasFile, spaceId, title, loadOk, documentChunks, failAt, dbOk)
    \/ \E spaceId \in SpaceIds \cup {NoSpace}, title \in Titles \cup {NoTitle},
          text \in RawTexts, embedOk \in BOOLEAN, dbOk \in BOOLEAN :
          PostEmbeddings(spaceId, title, text, embedOk, dbOk)

SpecIngest == Init /\ [][NextIngest]_vars

(* ------------------ requests served at the same time ------------------- *)
\* An answer request and the ingest and delete requests of the same space,
\* interleaved in every order: a store route runs between any two steps of
\* the answer request.
SameSpace == "s1"
ConcurrentChunkLists == {<< ChunkA >>, << ChunkB, Blank, ChunkA >>}

ConcurrentRequest ==
    \/ \E documentChunks \in ConcurrentChunkLists :
          UploadPdf(TRUE, SameSpace, "t", TRUE, documentChunks, 0, TRUE)
    \/ PostEmbeddings(SameSpace, "t", ChunkA, TRUE, TRUE)
    \/ \E id \in 1..MaxIds : DeleteDocument(id, TRUE)

ConcurrentChatStep ==
    \/ \E prompt \in SpacePrompts : ChatStart(prompt, SameSpace, TRUE)
    \/ \E ok \in BOOLEAN, content \in SpaceOutputs : ChatSampleQuestions(ok, content)
    \/ \E ok \in BOOLEAN : ChatAddDocuments(ok)
    \/ \E ok \in BOOLEAN : ChatSimilaritySearch(ok)
    \/ \E ok \in BOOLEAN, content \in SpaceOutputs : ChatAnswer(ok, content)
    \/ ChatEnd

NextConcurrent ==
    \/ ConcurrentRequest
    \/ ConcurrentChatStep

SpecConcurrent == Init /\ [][NextConcurrent]_vars

\* the same, every call of the answer request returning or failing in the
\* end: a step of the request that can be taken is taken
SpecConcurrentFair == SpecConcurrent /\ WF_vars(ConcurrentChatStep)

(* ------------------------------- claims -------------------------------- *)
\* the collection has no Document of that space
NoDocumentOf(spaceId) ==
    \A i \in 1..Len(embeddingsDb) : embeddingsDb[i].spaceId # spaceId

\* C1: an answer request, whatever its prompt, for a collection that holds
\* no Document (the read of the collection having succeeded) ends with a 404
\* and has called neither the Embedder nor the language model.
C1_NoCorpusNotFound ==
    [][ ( /\ chat.pc = "idle" /\ chat'.pc # "idle"
          /\ chat'.spaceId # NoSpace
          /\ chat'.failed # "store"
          /\ NoDocumentOf(chat'.spaceId) )
        => ( /\ chat'.pc = "done"
             /\ chat'.status = 404
             /\ chat'.calls = << >>
             /\ chat'.body.sampleQuestions = << >>
             /\ chat'.body.response = << >> ) ]_vars

\* a request with a prompt got a 404 while another collection holds Documents
C1_Witness ==
    /\ chat.pc = "done" /\ chat.status = 404
    /\ chat.prompt # NoPrompt
    /\ NoDocumentOf(chat.spaceId)
    /\ Len(embeddingsDb) > 0

\* the texts and the vectors of a Document are index-aligned
Aligned(doc) ==
    /\ Len(doc.content) = Len(doc.embeddings)
    /\ \A i \in 1..Len(doc.content) : doc.embeddings[i] = EmbedVec(doc.content[i])

\* C2: every persisted Document has as many chunk texts as chunk vectors,
\* and its i-th vector is the embedding of its i-th text.
C2_ChunksAligned ==
    \A i \in 1..Len(embeddingsDb) : Aligned(embeddingsDb[i])

\* a write of chunk texts and chunk vectors the Chunk Store must refuse
MustBeRefused(doc) ==
    \/ Len(doc.content) # Len(doc.embeddings)
    \/ Len(doc.content) = 0
    \/ Len(doc.embeddings) = 0

\* C3: a write whose chunk-text array and chunk-vector array differ in
\* length, or one of which is empty, is refused with an error response and
\* leaves no Document behind.
C3_MisalignedWriteRefused ==
    (lastOp.doc # NoDoc /\ MustBeRefused(lastOp.doc))
        => ( /\ lastOp.status >= 400
             /\ ~lastOp.saved
             /\ \A i \in 1..Len(embeddingsDb) : embeddingsDb[i].id # lastOp.doc.id )

\* the language-model call of the grounded-answer path has been made
AnswerAsked ==
    /\ chat.pc = "done"
    /\ chat.calls # << >>
    /\ chat.calls[Len(chat.calls)].to = "model"
    /\ chat.prompt # NoPrompt

\* C4: on the grounded-answer path the language model is sent one fixed
\* system instruction followed by one user message, which is
\* "Context:\n{context}\n\nQuestion: {prompt}" exactly when the context is
\* not empty and the bare prompt exactly when it is empty.
C4_UserMessage ==
    AnswerAsked =>
        LET messages == chat.calls[Len(chat.calls)].input
            wrapped == << "Context:\n" >> \o chat.context
                           \o << "\n\nQuestion: " >> \o chat.prompt
        IN  /\ Len(messages) = 2
            /\ messages[1] = [role |-> "system",
                              content |-> << "You are a helpful assistant that answers clearly." >>]
            /\ messages[2].role = "user"
            /\ (messages[2].content = wrapped) <=> (chat.context # << >>)
            /\ (messages[2].content = chat.prompt) <=> (chat.context = << >>)

\* the model was asked with an empty context: the message is the bare prompt
C4_Witness ==
    /\ AnswerAsked
    /\ chat.context = << >>
    /\ chat.calls[Len(chat.calls)].input[2].content = chat.prompt

\* the number of chunk texts the Documents hold
RECURSIVE ChunksHeld(_)
ChunksHeld(docs) ==
    IF docs = << >> THEN 0 ELSE Len(Head(docs).content) + ChunksHeld(Tail(docs))

\* C5: over a collection holding N chunks the grounded-answer retrieval
\* returns exactly min(3, N) chunks.
C5_RetrievesMinOf3AndN ==
    chat.pc = "answer" =>
        Len(chat.results) = Min(3, ChunksHeld(chat.embeddingsData))

\* the place in the context where the i-th entry starts: every earlier
\* entry takes its label, its text and the two line breaks after it
RECURSIVE EntryStart(_, _)
EntryStart(results, i) ==
    IF i = 1 THEN 1
    ELSE EntryStart(results, i - 1) + 1 + Len(results[i - 1]) + 2

\* C6: the context is the retrieved texts in ranked order, each after the
\* label "Content: ", two line breaks between consecutive entries and
\* nothing else; it is the empty text when nothing was retrieved.
C6_ContextAssembly ==
    chat.pc = "answer" =>
        LET results == chat.results
            n == Len(results)
            context == chat.context
            q == EmbedVec(chat.prompt)
        IN  /\ (n = 0) => (context = << >>)
            /\ (n > 0) => (Len(context) = EntryStart(results, n) + Len(results[n]))
            /\ \A i \in 1..n :
                  LET at == EntryStart(results, i)
                  IN  /\ context[at] = "Content: "
                      /\ SubSeq(context, at + 1, at + Len(results[i])) = results[i]
                      /\ (i < n) => /\ context[at + Len(results[i]) + 1] = NL
                                    /\ context[at + Len(results[i]) + 2] = NL
            /\ \A i \in 1..n : \A j \in (i + 1)..n :
                  ~MoreSimilar(EmbedVec(results[j]), EmbedVec(results[i]), q)

\* three entries of different similarity were assembled
C6_Witness ==
    /\ chat.pc = "answer"
    /\ Len(chat.results) = 3
    /\ chat.results[1] # chat.results[3]
    /\ Len(chat.context) > 3

\* C7: a grounded-answer request calls the Embedder for the prompt only:
\* stored chunks are not embedded again.
C7_EmbedderOnlyForPrompt ==
    \A i \in 1..Len(chat.calls) :
        chat.calls[i].to = "embedder" => chat.calls[i].input = << chat.prompt >>

\* the request took the sample-questions path and is over
SampleDone ==
    /\ chat.pc = "done"
    /\ chat.spaceId # NoSpace
    /\ chat.prompt = NoPrompt
    /\ chat.embeddingsData # << >>

\* the places of the line breaks of a text, with the places before its
\* first and after its last character
Breaks(raw) == {0, Len(raw) + 1} \cup {i \in 1..Len(raw) : raw[i] = NL}

\* the line of raw that starts after the break b
LineAfter(raw, b) ==
    LET next == CHOOSE e \in Breaks(raw) :
                    e > b /\ \A x \in Breaks(raw) : x > b => e <= x
    IN  SubSeq(raw, b + 1, next - 1)

\* the breaks after which a line starts that is not blank once cleaned
UsableStarts(raw) ==
    {b \in Breaks(raw) \ {Len(raw) + 1} : CleanQuestion(LineAfter(raw, b)) # << >>}

\* C8: the sample-questions path calls the language model exactly once and
\* the Embedder never; the sample questions returned are the first usable
\* (non-blank) lines of the output, at most 3, in their order, and fewer
\* when the output has fewer.
C8_SampleQuestions ==
    SampleDone =>
        /\ Len(chat.calls) = 1
        /\ chat.calls[1].to = "model"
        /\ chat.calls[1].ok =>
              LET raw == chat.calls[1].reply
                  questions == chat.body.sampleQuestions
                  usable == UsableStarts(raw)
              IN  /\ chat.status = 200
                  /\ Len(questions) = Min(3, Cardinality(usable))
                  /\ \A j \in 1..Len(questions) :
                        \E b \in usable :
                           /\ Cardinality({x \in usable : x < b}) = j - 1
                           /\ questions[j] = CleanQuestion(LineAfter(raw, b))

\* a blank line among the first three lines, and still three questions
C8_Witness ==
    /\ SampleDone
    /\ chat.status = 200
    /\ Len(chat.body.sampleQuestions) = 3
    /\ \E b \in Breaks(chat.calls[1].reply) :
          /\ b < Len(chat.calls[1].reply)
          /\ Cardinality({x \in Breaks(chat.calls[1].reply) : x < b}) < 3
          /\ CleanQuestion(LineAfter(chat.calls[1].reply, b)) = << >>

\* C9: no returned sample question begins with a digit followed by "." or
\* ")": a leading "1. " or "2) " is stripped from every line.
C9_NoLeadingEnumeration ==
    (SampleDone /\ chat.status = 200) =>
        \A j \in 1..Len(chat.body.sampleQuestions) :
            LET question == chat.body.sampleQuestions[j]
            IN  ~( /\ Len(question) >= 2
                   /\ IsDigit(question[1])
                   /\ question[2] \in {".", ")"} )

\* C10: a failed Embedder or language-model call ends the request with a
\* 500: it is the request's last call (no retry, no further call) and the
\* response carries neither an answer nor sample questions.
C10_FailureEndsRequest ==
    \A i \in 1..Len(chat.calls) :
        ~chat.calls[i].ok =>
            /\ i = Len(chat.calls)
            /\ chat.pc = "done"
            /\ chat.status = 500
            /\ chat.body.sampleQuestions = << >>
            /\ chat.body.response = << >>
            /\ chat.body.contextSummary = << >>

\* the prompt's embedding failed after the index was built
C10_Witness ==
    /\ chat.pc = "done"
    /\ Len(chat.calls) = 2
    /\ chat.calls[1].ok
    /\ ~chat.calls[2].ok
    /\ chat.status = 500

\* the space route named by op answered with that status
SpaceRouteDone(op, status) == lastOp.op = op /\ lastOp.status = status

\* C11: once DELETE /api/spaces/:spaceId has answered with success, the
\* Embedding collection holds no Document of that space, so a listing or an
\* answer request for it finds none.
C11_SpaceDocumentsDeleted ==
    SpaceRouteDone("deleteSpace", 200) => NoDocumentOf(lastOp.spaceId)

\* C12: once DELETE /api/spaces/:spaceId has answered with success, no Chat
\* and no ChatPlus entry of that space is left.
C12_SpaceChatsDeleted ==
    SpaceRouteDone("deleteSpace", 200)
    => /\ \A c \in chatsDb : c.spaceId # lastOp.spaceId
       /\ \A c \in chatPlusDb : c.spaceId # lastOp.spaceId

\* a space was deleted while chats and ChatPlus entries of another space stay
C12_Witness ==
    /\ SpaceRouteDone("deleteSpace", 200)
    /\ chatsDb # {}
    /\ chatPlusDb # {}

\* C13: a listing of the space served right after a successful PDF ingest
\* returns the ingested Document with the chunk texts the route embedded and
\* the vectors the Embedder gave for them, in the same order, and the ingest
\* reported as chunksSaved the number of those chunks.
C13_PdfRoundTrip ==
    [][ ( /\ lastOp.op = "upload" /\ lastOp.status = 200
          /\ lastOp'.op = "documents" /\ lastOp'.status = 200
          /\ lastOp'.spaceId = lastOp.doc.spaceId )
        => ( /\ lastOp.chunksSaved = Len(lastOp.doc.content)
             /\ lastOp.chunksSaved > 0
             /\ \E i \in 1..Len(lastOp'.documents) :
                   LET d == lastOp'.documents[i]
                   IN  /\ d.id = lastOp.doc.id
                       /\ d.content = lastOp.doc.content
                       /\ d.embeddings = lastOp.doc.embeddings
                       /\ d.embeddings =
                            [k \in 1..Len(d.content) |-> EmbedVec(d.content[k])] ) ]_vars

\* a listing returned a Document of several chunks
C13_Witness ==
    /\ lastOp.op = "documents" /\ lastOp.status = 200
    /\ \E i \in 1..Len(lastOp.documents) : Len(lastOp.documents[i].content) > 1

\* C14: a raw-text ingest answered with success has persisted a Document of
\* exactly one chunk: one chunk text, the raw text, and one vector, the
\* Embedder's vector of that text.
C14_RawIngestOneChunk ==
    (lastOp.op = "embeddings" /\ lastOp.status = 201)
    => \E i \in 1..Len(embeddingsDb) :
          LET d == embeddingsDb[i]
          IN  /\ d.id = lastOp.doc.id
              /\ Len(d.content) = 1
              /\ d.content[1] \in RawTexts \ {NoText}
              /\ d.embeddings = << EmbedVec(d.content[1]) >>

\* a text of white space only, the empty text included
AllSpace(t) == \A j \in 1..Len(t) : IsSpace(t[j])

VisibilityDone(op) == op.op = "visibility" /\ op.status = 200

\* the chunks an answer request for the space retrieves over
RetrievalCorpus(db, spaceId) == ToDocuments(Find(db, spaceId))

\* C16: a visibility update changes no Document's chunk texts, vectors,
\* title or space and leaves what an answer request retrieves over as it
\* was; and a Document toggled to the opposite visibility and back is again
\* the Document it was before the two updates.
C16_VisibilityToggledTwice ==
    [][ /\ VisibilityDone(lastOp')
           => /\ Len(embeddingsDb') = Len(embeddingsDb)
              /\ \A i \in 1..Len(embeddingsDb) :
                    /\ embeddingsDb'[i].id = embeddingsDb[i].id
                    /\ embeddingsDb'[i].content = embeddingsDb[i].content
                    /\ embeddingsDb'[i].embeddings = embeddingsDb[i].embeddings
                    /\ embeddingsDb'[i].title = embeddingsDb[i].title
                    /\ embeddingsDb'[i].spaceId = embeddingsDb[i].spaceId
              /\ \A spaceId \in SpaceIds :
                    RetrievalCorpus(embeddingsDb', spaceId)
                       = RetrievalCorpus(embeddingsDb, spaceId)
        /\ ( /\ VisibilityDone(lastOp) /\ VisibilityDone(lastOp')
             /\ lastOp.documents[1].visibility # lastOp.was.visibility
             /\ lastOp'.was = lastOp.documents[1]
             /\ lastOp'.documents[1].visibility = lastOp.was.visibility )
           => /\ lastOp'.documents[1] = lastOp.was
              /\ \E i \in 1..Len(embeddingsDb') : embeddingsDb'[i] = lastOp.was ]_vars

\* a Document of several chunks, born visible, hidden and then shown again
C16_Witness ==
    /\ VisibilityDone(lastOp)
    /\ ~lastOp.was.visibility
    /\ lastOp.documents[1].visibility
    /\ Len(lastOp.documents[1].content) > 1

\* C17: the Documents an answer request has fetched for its space, for a
\* grounded answer or for sample questions, are all visible: a Document
\* whose visibility is false is not among them.
C17_InvisibleExcluded ==
    \A i \in 1..Len(chat.embeddingsData) : chat.embeddingsData[i].visibility

\* the user is listed in the users of that space
IsMember(uid, spaceId) ==
    \E sp \in spacesDb : sp.spaceId = spaceId /\ Includes(sp.users, uid)

\* C18: a listing that returned Documents of a space was asked by a member
\* of that space, and an answer request answered from the Documents of a
\* space only when the space has a member who can have asked.
C18_MembersOnly ==
    /\ ( /\ lastOp.op = "documents" /\ lastOp.status = 200
         /\ lastOp.documents # << >> )
       => IsMember(lastOp.by, lastOp.spaceId)
    /\ (chat.pc = "done" /\ chat.status = 200)
       => \E uid \in Uids : IsMember(uid, chat.spaceId)

\* the request is past its read of the collection and not yet answered
InFlight(c) == c.pc \in {"sample", "addDocuments", "search", "answer"}

\* the Documents of the space as the collection holds them
StoredOf(db, spaceId) == SelectSeq(db, LAMBDA d : d.spaceId = spaceId)

\* C19: with ingest and delete requests served between the steps of an
\* answer request, what the request works from is the Documents of its space
\* as the collection held them at the one instant of its read, each of them
\* as one save left it; it keeps that read to its end, builds its index from
\* it alone, and every Document enters the collection in one step, whole.
C19_PointInTimeRead ==
    [][ /\ (chat.pc = "idle" /\ InFlight(chat'))
           => chat'.embeddingsData = StoredOf(embeddingsDb, chat'.spaceId)
        /\ (chat.pc # "idle" /\ chat'.pc # "idle")
           => chat'.embeddingsData = chat.embeddingsData
        /\ chat'.pc \in {"addDocuments", "search", "answer"}
           => chat'.documents = ToDocuments(chat'.embeddingsData)
        /\ \A i \in 1..Len(embeddingsDb') :
              \/ \E j \in 1..Len(embeddingsDb) : embeddingsDb'[i] = embeddingsDb[j]
              \/ /\ lastOp'.saved
                 /\ embeddingsDb'[i] = lastOp'.doc
                 /\ lastOp'.op = "upload" => Aligned(lastOp'.doc) ]_vars

\* the request is about to search an index built from a read that the
\* collection has since moved away from, by an ingest or a delete
C19_Witness ==
    /\ chat.pc = "search"
    /\ lastOp.op \in {"upload", "delete"} /\ lastOp.status = 200
    /\ chat.embeddingsData # StoredOf(embeddingsDb, chat.spaceId)

\* C20: no step of an answer request, on any of its paths and whether it
\* ends well or not, changes a stored Document, Space, Chat, ChatPlus entry
\* or User or the next _id; and once it is answered nothing of what it read
\* or built (its Documents, index, vectors, results) is kept.
C20_AnswerReadOnly ==
    [][ /\ chat' # chat
           => /\ embeddingsDb' = embeddingsDb
              /\ nextId' = nextId
              /\ spacesDb' = spacesDb
              /\ chatsDb' = chatsDb
              /\ chatPlusDb' = chatPlusDb
              /\ usersDb' = usersDb
        /\ chat'.pc = "idle"
           => /\ chat'.embeddingsData = << >>
              /\ chat'.documents = << >>
              /\ chat'.vectors = << >>
              /\ chat'.results = << >> ]_vars

\* a grounded answer was given while every collection holds entries
C20_Witness ==
    /\ chat.pc = "done" /\ chat.status = 200
    /\ chat.results # << >>
    /\ embeddingsDb # << >>
    /\ spacesDb # {} /\ chatsDb # {} /\ chatPlusDb # {} /\ usersDb # {}

\* C21: every answer request past its read of the collection gets to its
\* response; a request that has been answered has sent one response, with
\* the status of an answer (200) or of a failure (400, 404, 500), and a
\* request that has not been answered has sent none.
C21_AnswerRequestEnds ==
    /\ InFlight(chat) ~> (chat.pc = "done")
    /\ [](chat.pc = "done" => (chat.responses = 1 /\ chat.status \in {200, 400, 404, 500}))
    /\ [](chat.pc # "done" => chat.responses = 0)

\* a request failed at the similarity search and sent its one response
C21_Witness ==
    /\ chat.pc = "done" /\ chat.responses = 1
    /\ chat.status = 500 /\ chat.failed = "embedder"
    /\ Len(chat.calls) = 2

\* C22: a POST /api/spaces naming a spaceId that a stored space has, whoever
\* owns that space, is answered 400 and stores nothing; and no two stored
\* spaces ever share a spaceId.
C22_SpaceIdTaken ==
    [][ /\ ( /\ lastOp'.op = "spaces"
             /\ \E sp \in spacesDb : sp.spaceId = lastOp'.spaceId )
           => (lastOp'.status = 400 /\ spacesDb' = spacesDb)
        /\ \A a, b \in spacesDb' : a.spaceId = b.spaceId => a = b ]_vars

\* C24: whenever a login has been answered, the stored spaces hold exactly
\* one space named "Personal Assistant" that the user who logged in owns,
\* and that user is among its users.
PersonalSpacesOf(firebaseUid) ==
    {sp \in spacesDb : /\ sp.firebaseUid = firebaseUid
                       /\ sp.spaceName = PersonalAssistant}

C24_LoginLeavesPersonalSpace ==
    (lastOp.op = "login" /\ lastOp.status = 200)
        => /\ Cardinality(PersonalSpacesOf(lastOp.by)) = 1
           /\ \A sp \in PersonalSpacesOf(lastOp.by) : Includes(sp.users, lastOp.by)

\* how often the users array of the space spaceId names userId
Occurrences(db, spaceId, userId) ==
    LET users == (CHOOSE sp \in InSpace(db, spaceId) : TRUE).users
    IN  Cardinality({i \in 1..Len(users) : users[i] = userId})

\* C30, as stated: after every answered add the space names the user
\* exactly once, after every answered removal it does not name the user, and
\* a listing for a user holds exactly the spaces that name the user.
C30_AddOnceRemoveGone ==
    /\ (lastOp.op = "addUser" /\ lastOp.status = 200)
          => Occurrences(spacesDb, lastOp.spaceId, lastOp.by) = 1
    /\ (lastOp.op = "removeUser" /\ lastOp.status = 200)
          => Occurrences(spacesDb, lastOp.spaceId, lastOp.by) = 0
    /\ (lastOp.op = "getSpaces" /\ lastOp.status = 200)
          => lastOp.listed = {sp \in spacesDb : Includes(sp.users, lastOp.by)}

\* C30, amended: an answered add leaves the user named exactly once when the
\* space named the user at most once before, and changes nothing when the
\* user was named; an answered removal leaves the user unnamed; a listing
\* for a user holds exactly the spaces that name the user.
C30_AddOnceFromSet ==
    [][ /\ ( /\ lastOp'.op = "addUser" /\ lastOp'.status = 200
             /\ Occurrences(spacesDb, lastOp'.spaceId, lastOp'.by) <= 1 )
           => /\ Occurrences(spacesDb', lastOp'.spaceId, lastOp'.by) = 1
              /\ Occurrences(spacesDb, lastOp'.spaceId, lastOp'.by) = 1
                    => spacesDb' = spacesDb
        /\ (lastOp'.op = "removeUser" /\ lastOp'.status = 200)
           => Occurrences(spacesDb', lastOp'.spaceId, lastOp'.by) = 0
        /\ (lastOp'.op = "getSpaces" /\ lastOp'.status = 200)
           => /\ lastOp'.listed = {sp \in spacesDb' : Includes(sp.users, lastOp'.by)}
              /\ spacesDb' = spacesDb ]_vars

\* a user who was in the space was added again, and is in it once
C30_Witness ==
    /\ lastOp.op = "addUser" /\ lastOp.status = 200 /\ ~lastOp.changed
    /\ Occurrences(spacesDb, lastOp.spaceId, lastOp.by) = 1
    /\ Len((CHOOSE sp \in InSpace(spacesDb, lastOp.spaceId) : TRUE).users) = 2

\* C28: a DELETE /api/spaces/:spaceId for a spaceId that no stored space
\* has, when the store does not fail, is answered 404 and leaves every
\* collection as it was, the Chats and ChatPlus entries of that spaceId too.
C28_MissingSpaceUntouched ==
    [][ ( /\ lastOp'.op = "deleteSpace" /\ lastOp'.status # 500
          /\ InSpace(spacesDb, lastOp'.spaceId) = {} )
        => /\ lastOp'.status = 404
           /\ UNCHANGED << embeddingsDb, spacesDb, chatsDb, chatPlusDb, usersDb >> ]_vars

\* C29: whenever a PDF upload that received a file has been answered, on
\* whichever path, the file multer wrote for it has been removed.
C29_TempFileRemoved ==
    (lastOp.op = "upload" /\ lastOp.tempFile # "none")
        => lastOp.tempFile = "removed"

\* whether the chat was made as a private chat, and whether the user may see
\* it: its maker when it is private, the users of its ChatPlus entry else
IsPrivate(chatDoc) == RequestedChatPlusId(chatDoc.chatId) = NotPlus

MaySee(chatDoc, firebaseUid) ==
    IF IsPrivate(chatDoc)
    THEN chatDoc.firebaseUid = firebaseUid
    ELSE \E chatPlus \in chatPlusDb :
            /\ chatPlus.chatPlusId = RequestedChatPlusId(chatDoc.chatId)
            /\ Includes(chatPlus.users, firebaseUid)

\* C25: a listing of the chats of a space for a user holds chats of that
\* space only, and none that the user may not see: no private chat of another
\* user, no shared chat whose ChatPlus entry is missing or does not name the
\* user.
C25_ListedChatsAllowed ==
    (lastOp.op = "getChats" /\ lastOp.status = 200)
        => /\ lastOp.listed \subseteq InSpace(chatsDb, lastOp.spaceId)
           /\ \A c \in InSpace(chatsDb, lastOp.spaceId) :
                 ~MaySee(c, lastOp.by) => c \notin lastOp.listed

\* a user listed the chats of a space that holds another user's private
\* chat and a shared chat whose entry does not name them, and got neither
C25_Witness ==
    /\ lastOp.op = "getChats" /\ lastOp.status = 200 /\ lastOp.by = "u2"
    /\ \E c \in InSpace(chatsDb, lastOp.spaceId) :
          IsPrivate(c) /\ c.firebaseUid = "u1" /\ c \notin lastOp.listed
    /\ \E c \in InSpace(chatsDb, lastOp.spaceId) :
          ~IsPrivate(c) /\ ~MaySee(c, "u2") /\ c \notin lastOp.listed
    /\ chatPlusDb # {}

\* C26: a listing of the chats of a space for a user holds every stored
\* private chat that this user made in that space.
C26_OwnPrivateChatsListed ==
    (lastOp.op = "getChats" /\ lastOp.status = 200)
        => \A c \in InSpace(chatsDb, lastOp.spaceId) :
              (IsPrivate(c) /\ c.firebaseUid = lastOp.by) => c \in lastOp.listed

\* C27: once a DELETE /api/chats/:chatId of a chat made with a chatPlusId
\* other than "NA" has been answered 200, the chat is gone and so is every
\* ChatPlus entry of that chatPlusId.
C27_SharedChatAndEntryGone ==
    ( /\ lastOp.op = "deleteChat" /\ lastOp.status = 200
      /\ RequestedChatPlusId(lastOp.chatId) # NotPlus )
        => /\ ~\E c \in chatsDb : c.chatId = lastOp.chatId
           /\ FindOneChatPlus(chatPlusDb, RequestedChatPlusId(lastOp.chatId)) = {}

\* C23: whatever the order of the steps of the registration requests, the
\* stored Users never hold two of one firebaseUid, and a request that is
\* answered while a User of its firebaseUid is stored by another request is
\* answered 400.
C23_OneUserPerUid ==
    /\ [](\A a, b \in usersDb : a.firebaseUid = b.firebaseUid => a = b)
    /\ [][ \A r \in 1..MaxRegistrations :
             ( /\ registrations[r].pc # "done" /\ registrations'[r].pc = "done"
               /\ \E u \in usersDb : u.firebaseUid = registrations'[r].firebaseUid )
                => registrations'[r].status = 400 ]_vars
====
